---- MODULE Spec2Model ----
(***************************************************************************)
(* A model of the echo server: the RateLimiter, CommandHistory and         *)
(* ClientHub of internal/ws/middleware.go and the connection handler       *)
(* HandleWebSocket of internal/ws/handler.go.                              *)
(*                                                                         *)
(* Each component has its own specification: SpecRL (one RateLimiter),     *)
(* SpecCH (one CommandHistory), SpecHub (the hub and its callers) and      *)
(* SpecHandler (the connection handlers, their heartbeat tasks and the     *)
(* message counter).  A specification leaves the other components alone.   *)
(* SpecConn, SpecLife, SpecBurst, SpecCmd and SpecErr follow one           *)
(* connection through the handler for different requests, and SpecMember   *)
(* puts a handler's connection into the hub.                               *)
(***************************************************************************)
EXTENDS Integers, Sequences, FiniteSets, TLC

VARIABLES
    \* ---- RateLimiter (middleware.go:13-18) and the clock it reads
    now,             \* time.Now(), in seconds
    timestamps,      \* rl.timestamps
    maxMessages,     \* rl.maxMessages
    windowDuration,  \* rl.windowDuration
    rlLog,           \* history: the AllowMessage calls made, [at, ok]
    \* ---- CommandHistory (middleware.go:57-61)
    commands,        \* ch.commands
    maxSize,         \* ch.maxSize
    added,           \* history: every command passed to Add, in order
    history,         \* the slice the last GetHistory call returned
    historyAt,       \* history: Len(added) when GetHistory was last called
    \* ---- ClientHub (middleware.go:107-113) and the goroutines that call it
    clients,         \* h.clients: the registered connections
    broadcast,       \* h.broadcast: the buffered channel's content
    call,            \* per caller: the hub call it is blocked in, if any
    hubpc,           \* where Run is: "select", "range" or "write"
    msg,             \* Run's msg: the BroadcastMessage being fanned out
    todo,            \* the clients the range loop has not visited yet
    target,          \* the client Run is writing to
    written,         \* per connection: the payloads the hub wrote to it
    bcast,           \* history: the broadcast being, or last, processed
    nBroadcast,      \* history: Broadcast calls made so far
    nMember,         \* history: Register and Unregister calls made so far
    lastOp,          \* history, per connection: the last membership
                     \* operation the coordinator processed for it
    \* ---- HandleWebSocket (handler.go:130-256), one call per connection
    messageCounter,  \* the process-wide messageCounter
    pc,              \* per connection: where its HandleWebSocket call is
    status,          \* per connection: the HTTP error status answered, or 0
    payload,         \* per connection: the text ReadMessage returned
    id,              \* per connection: the id of the message being answered
    formatted,       \* per connection: the last response built for it
    readDeadline,    \* per connection: the deadline SetReadDeadline set
    doneCount,       \* per connection: how many times close(done) ran
    closeCount,      \* per connection: how many times conn.Close() ran
    hb,              \* per connection: the ping goroutine: "none", "run"
                     \* (in its select), "ping" (in WriteControl), and
                     \* "stopped" or "failed" once it has returned
    ticked,          \* per connection: ticker.C holds a tick
    err,             \* per connection: what ended the read loop: the kind
                     \* of read error, or "write"
    budget,          \* frames the peers will still send
    horizon,         \* the time the clock runs to
    accepted,        \* history, per connection: the texts read, in order
    lastMessage,     \* history, per connection: when it last read a message
    request,         \* history, per connection: the request it came with
    issued           \* history: the ids atomic.AddUint64 returned, in order

rlVars == <<timestamps, maxMessages, windowDuration, rlLog>>
chVars == <<commands, maxSize, added, history, historyAt>>

hubVars == <<clients, broadcast, call, hubpc, msg, todo, target, written,
             bcast, nBroadcast, nMember, lastOp>>

connVars == <<pc, status, payload, id, formatted, readDeadline,
              doneCount, closeCount, hb, ticked, err, accepted, lastMessage,
              request>>
hVars == <<messageCounter, connVars, budget, horizon, issued>>

vars == <<now, rlVars, chVars, hubVars, hVars>>

----------------------------------------------------------------------------
(* Bounds of the model *)

MaxLimit == 2       \* largest maxMessages a limiter is constructed with
MaxWindow == 2      \* largest windowDuration a limiter is constructed with
MaxRLTime == 5      \* the limiter's clock stops here
MaxCalls == 4       \* AllowMessage calls made on the limiter
MaxSize == 2        \* largest capacity a history is constructed with
MaxAdds == 4        \* Add calls made on the history
MaxBroadcasts == 2  \* Broadcast calls made on the hub
MaxMemberCalls == 3 \* Register and Unregister calls made on the hub
MaxFrames == 2      \* frames the peers send to the handlers
MaxTicks == 3       \* ticker periods the clock runs for, one connection
MaxOperand == 2     \* largest operand of an arithmetic request
CmdFrames == 1      \* arithmetic requests a peer sends
SharedTicks == 1    \* ticker periods the clock runs for, two connections

----------------------------------------------------------------------------
(* RateLimiter *)

\* time.Time.After
After(t, u) == t > u

\* middleware.go:35
Cutoff(n, w) == n - w

\* middleware.go:38-44: the timestamps younger than the cutoff
Filtered(ts, cutoff) == SelectSeq(ts, LAMBDA t : After(t, cutoff))

LimitReachedOffByOne(ts, max) == Len(ts) > max

\* middleware.go:47
LimitReached(ts, max) == Len(ts) >= max

\* NewRateLimiter(maxMessages, windowDuration)
InitRL ==
    /\ timestamps = <<>>
    /\ maxMessages \in 1..MaxLimit
    /\ windowDuration \in 1..MaxWindow
    /\ rlLog = <<>>

\* RateLimiter.AllowMessage, under rl.mu
AllowMessage ==
    /\ Len(rlLog) < MaxCalls
    /\ LET filtered == Filtered(timestamps, Cutoff(now, windowDuration))
       IN  IF LimitReached(filtered, maxMessages)
           THEN /\ timestamps' = filtered
                /\ rlLog' = Append(rlLog, [at |-> now, ok |-> FALSE])
           ELSE /\ timestamps' = Append(filtered, now)
                /\ rlLog' = Append(rlLog, [at |-> now, ok |-> TRUE])
    /\ UNCHANGED <<now, maxMessages, windowDuration, chVars, hubVars, hVars>>

\* one second passes between two calls
RLSleep ==
    /\ now < MaxRLTime
    /\ now' = now + 1
    /\ UNCHANGED <<rlVars, chVars, hubVars, hVars>>

----------------------------------------------------------------------------
(* CommandHistory *)

Commands == {"UPPER:test", "REVERSE:hello"}

\* ch.commands[1:]
Tail1(s) == SubSeq(s, 2, Len(s))

AddNoEvict(cs, max, command) == Append(cs, command)

\* middleware.go:76-79
AddTo(cs, max, command) ==
    Append(IF Len(cs) >= max THEN Tail1(cs) ELSE cs, command)

\* NewCommandHistory(size)
InitCH ==
    /\ commands = <<>>
    /\ maxSize \in 1..MaxSize
    /\ added = <<>>
    /\ history = <<>>
    /\ historyAt = 0

\* CommandHistory.Add, under ch.mu
Add(command) ==
    /\ Len(added) < MaxAdds
    /\ commands' = AddTo(commands, maxSize, command)
    /\ added' = Append(added, command)
    /\ UNCHANGED <<now, rlVars, maxSize, history, historyAt, hubVars, hVars>>

\* CommandHistory.GetHistory, under ch.mu: a copy of ch.commands
GetHistory ==
    /\ history' = [i \in 1..Len(commands) |-> commands[i]]
    /\ historyAt' = Len(added)
    /\ UNCHANGED <<now, rlVars, commands, maxSize, added, hubVars, hVars>>

----------------------------------------------------------------------------
(* ClientHub *)

\* the connections (*websocket.Conn identities)
Conns == {"c1", "c2", "c3"}

\* the connections Broadcast is called for
Senders == {"c2", "c3"}

\* cap(h.broadcast), middleware.go:127
BroadcastCap == 256

\* A payload is known by the number of the Broadcast call it was passed
\* to; with it goes what was the case when that call was made: the calls
\* that had returned, and the connections whose Unregister had returned
\* last.
NoPayload == [n |-> 0, after |-> {}, gone |-> {}]
NoCall == [op |-> "none", payload |-> NoPayload]
NoMsg == [Payload |-> NoPayload, Sender |-> "none"]
NoBcast == [sender |-> "none", before |-> {}, attempted |-> {},
            failed |-> {}, done |-> FALSE]

\* init(), middleware.go:124-132
InitHub ==
    /\ clients = {}
    /\ broadcast = <<>>
    /\ call = [c \in Conns |-> NoCall]
    /\ hubpc = "select"
    /\ msg = NoMsg
    /\ todo = {}
    /\ target = "none"
    /\ written = [c \in Conns |-> <<>>]
    /\ bcast = NoBcast
    /\ nBroadcast = 0
    /\ nMember = 0
    /\ lastOp = [c \in Conns |-> "none"]

\* ClientHub.Register: the caller blocks sending on the unbuffered h.register
CallRegister(c) ==
    /\ call[c] = NoCall
    /\ nMember < MaxMemberCalls
    /\ nMember' = nMember + 1
    /\ call' = [call EXCEPT ![c] = [op |-> "register", payload |-> NoPayload]]
    /\ UNCHANGED <<now, rlVars, chVars, hVars, clients, broadcast, hubpc, msg, todo,
                   target, written, bcast, nBroadcast, lastOp>>

\* ClientHub.Unregister: the caller blocks sending on the unbuffered h.unregister
CallUnregister(c) ==
    /\ call[c] = NoCall
    /\ nMember < MaxMemberCalls
    /\ nMember' = nMember + 1
    /\ call' = [call EXCEPT ![c] = [op |-> "unregister", payload |-> NoPayload]]
    /\ UNCHANGED <<now, rlVars, chVars, hVars, clients, broadcast, hubpc, msg, todo,
                   target, written, bcast, nBroadcast, lastOp>>

\* the Broadcast calls that have returned
Returned == (1..nBroadcast) \ {call[c].payload.n : c \in Conns}

\* ClientHub.Broadcast is called
CallBroadcast(c) ==
    /\ call[c] = NoCall
    /\ nBroadcast < MaxBroadcasts
    /\ nBroadcast' = nBroadcast + 1
    /\ call' = [call EXCEPT ![c] =
                  [op |-> "broadcast",
                   payload |-> [n |-> nBroadcast + 1,
                                after |-> Returned,
                                gone |-> {d \in Conns : lastOp[d] = "unregister"}]]]
    /\ UNCHANGED <<now, rlVars, chVars, hVars, clients, broadcast, hubpc, msg, todo,
                   target, written, bcast, nMember, lastOp>>

\* ClientHub.Broadcast returns: the send on the buffered h.broadcast goes
\* through as soon as the buffer has room
SendBroadcast(c) ==
    /\ call[c].op = "broadcast"
    /\ Len(broadcast) < BroadcastCap
    /\ broadcast' = Append(broadcast, [Payload |-> call[c].payload, Sender |-> c])
    /\ call' = [call EXCEPT ![c] = NoCall]
    /\ UNCHANGED <<now, rlVars, chVars, hVars, clients, hubpc, msg, todo, target,
                   written, bcast, nBroadcast, nMember, lastOp>>

SetNothing(cs, c) == cs

\* h.clients[conn] = true, middleware.go:140
SetConn(cs, c) == cs \cup {c}

DeleteNothing(cs, c) == cs

\* delete(h.clients, conn), middleware.go:147
DeleteConn(cs, c) == cs \ {c}

\* Run, case conn := <-h.register (middleware.go:138-142); Register returns
HubRegister(c) ==
    /\ hubpc = "select"
    /\ call[c].op = "register"
    /\ clients' = SetConn(clients, c)
    /\ lastOp' = [lastOp EXCEPT ![c] = IF c \in clients THEN "register again"
                                       ELSE "register"]
    /\ call' = [call EXCEPT ![c] = NoCall]
    /\ UNCHANGED <<now, rlVars, chVars, hVars, broadcast, hubpc, msg, todo, target,
                   written, bcast, nBroadcast, nMember>>

\* Run, case conn := <-h.unregister (middleware.go:144-150); Unregister returns
HubUnregister(c) ==
    /\ hubpc = "select"
    /\ call[c].op = "unregister"
    /\ clients' = IF c \in clients THEN DeleteConn(clients, c) ELSE clients
    /\ lastOp' = [lastOp EXCEPT ![c] = IF c \in clients THEN "unregister"
                                       ELSE "unregister absent"]
    /\ call' = [call EXCEPT ![c] = NoCall]
    /\ UNCHANGED <<now, rlVars, chVars, hVars, broadcast, hubpc, msg, todo, target,
                   written, bcast, nBroadcast, nMember>>

ReceiveNewest(ch) == [msg |-> ch[Len(ch)], rest |-> SubSeq(ch, 1, Len(ch) - 1)]

\* msg := <-h.broadcast: a channel hands over what was sent first
Receive(ch) == [msg |-> Head(ch), rest |-> Tail(ch)]

\* Run, case msg := <-h.broadcast (middleware.go:152-154): the range loop
\* starts over the clients map
HubBroadcast ==
    /\ hubpc = "select"
    /\ broadcast # <<>>
    /\ msg' = Receive(broadcast).msg
    /\ broadcast' = Receive(broadcast).rest
    /\ todo' = clients
    /\ hubpc' = "range"
    /\ bcast' = [sender |-> Receive(broadcast).msg.Sender, before |-> clients,
                 attempted |-> {}, failed |-> {}, done |-> FALSE]
    /\ UNCHANGED <<now, rlVars, chVars, hVars, clients, call, target, written,
                   nBroadcast, nMember, lastOp>>

\* middleware.go:156-158: the sender is skipped
HubSkipSender ==
    /\ hubpc = "range"
    /\ msg.Sender \in todo
    /\ todo' = todo \ {msg.Sender}
    /\ UNCHANGED <<now, rlVars, chVars, hVars, clients, broadcast, call, hubpc, msg,
                   target, written, bcast, nBroadcast, nMember, lastOp>>

\* middleware.go:161: client.WriteMessage is called for the next client of
\* the map, in the map's (unspecified) order
HubWrite(client) ==
    /\ hubpc = "range"
    /\ client \in todo
    /\ client # msg.Sender
    /\ todo' = todo \ {client}
    /\ target' = client
    /\ hubpc' = "write"
    /\ bcast' = [bcast EXCEPT !.attempted = @ \cup {client}]
    /\ UNCHANGED <<now, rlVars, chVars, hVars, clients, broadcast, call, msg, written,
                   nBroadcast, nMember, lastOp>>

AbortRange(rest) == {}

\* middleware.go:162-164: a write error is logged and the loop goes on with
\* the clients that are left
RestAfterError(rest) == rest

\* middleware.go:161-164: client.WriteMessage returns, nil or an error.  The
\* hub sets no write deadline: a write to a peer that has stopped reading
\* returns only when the peer lets it.
HubWriteReturn(ok) ==
    /\ hubpc = "write"
    /\ hubpc' = "range"
    /\ target' = "none"
    /\ IF ok
       THEN /\ written' = [written EXCEPT ![target] = Append(@, msg.Payload)]
            /\ UNCHANGED <<todo, bcast>>
       ELSE /\ todo' = RestAfterError(todo)
            /\ bcast' = [bcast EXCEPT !.failed = @ \cup {target}]
            /\ UNCHANGED written
    /\ UNCHANGED <<now, rlVars, chVars, hVars, clients, broadcast, call, msg,
                   nBroadcast, nMember, lastOp>>

\* middleware.go:165-166: the range loop is over
HubRangeEnd ==
    /\ hubpc = "range"
    /\ todo = {}
    /\ hubpc' = "select"
    /\ msg' = NoMsg
    /\ bcast' = [bcast EXCEPT !.done = TRUE]
    /\ UNCHANGED <<now, rlVars, chVars, hVars, clients, broadcast, call, todo, target,
                   written, nBroadcast, nMember, lastOp>>

----------------------------------------------------------------------------
(* The handler's pure functions.  A text is the sequence of its code       *)
(* points; a JSON text is "{", then its tokens.                            *)

\* handler.go:33-35, in seconds
writeWait == 5
pongWait == 30
pingPeriod == (pongWait * 9) \div 10

\* conn.SetReadLimit, handler.go:148
ReadLimit == 1024 * 4

Lower == <<"a", "b", "c", "d", "e", "f", "g", "h", "i", "j", "k", "l", "m",
           "n", "o", "p", "q", "r", "s", "t", "u", "v", "w", "x", "y", "z">>
Upper == <<"A", "B", "C", "D", "E", "F", "G", "H", "I", "J", "K", "L", "M",
           "N", "O", "P", "Q", "R", "S", "T", "U", "V", "W", "X", "Y", "Z">>

\* unicode.ToUpper on one code point
ToUpperRune(r) ==
    IF \E i \in 1..Len(Lower) : Lower[i] = r
    THEN Upper[CHOOSE i \in 1..Len(Lower) : Lower[i] = r]
    ELSE r

\* strings.ToUpper
ToUpper(text) == [i \in 1..Len(text) |-> ToUpperRune(text[i])]

\* handler.go:223-227: the runes swapped from both ends
ReverseRunes(text) == [i \in 1..Len(text) |-> text[Len(text) + 1 - i]]

\* strings.HasPrefix
HasPrefix(text, prefix) ==
    /\ Len(text) >= Len(prefix)
    /\ SubSeq(text, 1, Len(prefix)) = prefix

\* strings.TrimPrefix, for a text that has the prefix
TrimPrefix(text, prefix) == SubSeq(text, Len(prefix) + 1, Len(text))

Digits == <<"0", "1", "2", "3", "4", "5", "6", "7", "8", "9">>

\* strconv.FormatUint(n, 10)
RECURSIVE FormatUint(_)
FormatUint(n) ==
    IF n < 10 THEN <<Digits[n + 1]>>
    ELSE Append(FormatUint(n \div 10), Digits[(n % 10) + 1])

\* the number a digit token stands for
IsDigit(tok) == \E i \in 1..Len(Digits) : Digits[i] = tok
DigitValue(tok) == (CHOOSE i \in 1..Len(Digits) : Digits[i] = tok) - 1

\* encoding/json writes a number: an integer in decimal, a quotient that is
\* no integer as the fraction it is
FormatNumber(num, den) ==
    LET sign(n) == IF n < 0 THEN <<"-">> \o FormatUint(0 - n) ELSE FormatUint(n)
    IN  IF num % den = 0 THEN sign(num \div den)
        ELSE sign(num) \o <<"/">> \o FormatUint(den)

UpperPrefix == <<"U", "P", "P", "E", "R", ":">>
ReversePrefix == <<"R", "E", "V", "E", "R", "S", "E", ":">>

\* json.Unmarshal into a CommandRequest (handler.go:19-23, 58): the tokens
\* of {"command":c,"a":x,"b":y}, or the error of a text that ends early or
\* of an operand that is no number
Unmarshal(data) ==
    IF Len(data) # 5 \/ data[Len(data)] # "}"
    THEN [err |-> "unexpected end of JSON input", Command |-> "", A |-> 0, B |-> 0]
    ELSE IF ~IsDigit(data[3])
    THEN [err |-> "json: cannot unmarshal string into Go struct field CommandRequest.a of type float64",
          Command |-> data[2], A |-> 0, B |-> 0]
    ELSE IF ~IsDigit(data[4])
    THEN [err |-> "json: cannot unmarshal string into Go struct field CommandRequest.b of type float64",
          Command |-> data[2], A |-> DigitValue(data[3]), B |-> 0]
    ELSE [err |-> "", Command |-> data[2],
          A |-> DigitValue(data[3]), B |-> DigitValue(data[4])]

\* json.Marshal of a CommandResponse (handler.go:25-29): result and error
\* are omitempty, so a zero result and an empty error are left out
MarshalNoError(hasResult, num, den, command, error) ==
    <<"{", "command", ":", command, "}">>

MarshalResponse(hasResult, num, den, command, error) ==
    <<"{">>
    \o (IF hasResult /\ num # 0
        THEN <<"result", ":">> \o FormatNumber(num, den) \o <<",">>
        ELSE <<>>)
    \o <<"command", ":", command>>
    \o (IF error # "" THEN <<",", "error", ":", error>> ELSE <<>>)
    \o <<"}">>

\* processCommand, handler.go:55-109
processCommand(data) ==
    LET req == Unmarshal(data)
    IN  IF req.err # ""
        THEN MarshalResponse(FALSE, 0, 1, "unknown", "invalid JSON: " \o req.err)
        ELSE IF req.Command = "add"
        THEN MarshalResponse(TRUE, req.A + req.B, 1, req.Command, "")
        ELSE IF req.Command = "subtract"
        THEN MarshalResponse(TRUE, req.A - req.B, 1, req.Command, "")
        ELSE IF req.Command = "multiply"
        THEN MarshalResponse(TRUE, req.A * req.B, 1, req.Command, "")
        ELSE IF req.Command = "divide"
        THEN IF req.B = 0
             THEN MarshalResponse(FALSE, 0, 1, req.Command, "division by zero")
             ELSE MarshalResponse(TRUE, req.A, req.B, req.Command, "")
        ELSE MarshalResponse(FALSE, 0, 1, req.Command,
                             "unknown command: " \o req.Command)

\* handler.go:217-239: the response body of a text message
ResponseBody(message) ==
    IF HasPrefix(message, UpperPrefix)
    THEN ToUpper(TrimPrefix(message, UpperPrefix))
    ELSE IF HasPrefix(message, ReversePrefix)
    THEN ReverseRunes(TrimPrefix(message, ReversePrefix))
    ELSE IF Len(message) > 0 /\ HasPrefix(message, <<"{">>)
    THEN processCommand(message)
    ELSE message

\* handler.go:242
Formatted(n, responseBody) ==
    <<"#">> \o FormatUint(n) \o <<" ">> \o responseBody

\* a string as encoding/json writes it (the texts of the model need no
\* escaping)
JSONString(text) == <<"\"">> \o text \o <<"\"">>

\* a []string as encoding/json writes it
RECURSIVE JSONStrings(_)
JSONStrings(h) ==
    IF h = <<>> THEN <<>>
    ELSE IF Len(h) = 1 THEN JSONString(h[1])
    ELSE JSONString(h[1]) \o <<",">> \o JSONStrings(Tail(h))

\* CommandHistory.GetHistoryJSON, middleware.go:94-104: json.Marshal of a
\* map writes its keys in sorted order, "count" before "history"
GetHistoryJSON(h) ==
    <<"{", "count", ":">> \o FormatUint(Len(h))
    \o <<",", "history", ":", "[">> \o JSONStrings(h) \o <<"]", "}">>

----------------------------------------------------------------------------
(* HandleWebSocket *)

\* handler.go:39-41
allowedOrigins ==
    << <<"h", "t", "t", "p", ":", "/", "/", "l", "o", "c", "a", "l", "h", "o",
         "s", "t", ":", "4", "0", "0", "0">> >>

\* strings.EqualFold on the texts of the model: equal once upper-cased
EqualFold(s, t) == ToUpper(s) = ToUpper(t)

OriginNotEmpty(o) == o # <<>>

\* handler.go:43-53
originAllowed(o) ==
    IF o = <<>> THEN FALSE
    ELSE \E i \in 1..Len(allowedOrigins) : EqualFold(o, allowedOrigins[i])

\* the Origin headers and methods of the requests made
Origins ==
    { <<>>,
      allowedOrigins[1],
      ToUpper(allowedOrigins[1]),
      <<"h", "t", "t", "p", ":", "/", "/", "e", "v", "i", "l">> }
\* the Origin headers sent where the origin check is not looked at
SharedOrigins == {<<>>, allowedOrigins[1]}
Methods == {"GET", "POST"}

\* the texts the peers send
THistory == <<"H", "I", "S", "T", "O", "R", "Y">>
TBroadcast == <<"B", "R", "O", "A", "D", "C", "A", "S", "T", ":", "h", "i">>
TUpper == UpperPrefix \o <<"h", "i">>
TReverse == ReversePrefix \o <<"a", "b">>
TAdd == <<"{", "add", "9", "6", "}">>
TEcho == <<"h", "i">>
Texts == {THistory, TBroadcast, TUpper, TReverse, TAdd, TEcho}
\* requests the processor answers with an error: one that ends early, one
\* of an unknown operation and a division by zero
TMalformed == <<"{", "add", "1">>
TUnknown == <<"{", "power", "1", "2", "}">>
TDivZero == <<"{", "divide", "1", "0", "}">>
ErrorTexts == {TMalformed, TUnknown, TDivZero}
\* the texts sent where several connections are open
SharedTexts == {TBroadcast}

\* the operation names of the arithmetic requests sent: the four the
\* processor knows and one it does not
Operations == {"add", "subtract", "multiply", "divide", "power"}

\* the arithmetic requests sent: {"command":op,"a":a,"b":b}
CommandTexts ==
    { <<"{", op, Digits[a + 1], Digits[b + 1], "}">> :
        op \in Operations, a \in 0..MaxOperand, b \in 0..MaxOperand }

AtomicAddLost(v, delta) == v

\* atomic.AddUint64: the new value (the model stays far below 2^64)
AtomicAddUint64(v, delta) == v + delta

CloseChanSkipped(count) == count

\* handler.go:253, close(done): done has been closed once more
CloseChan(count) == count + 1

CloseConnSkipped(count) == count

\* handler.go:143, the deferred conn.Close(): the stream has been closed
\* once more
CloseConn(count) == count + 1

NoRequest == [method |-> "", origin |-> <<>>, handshake |-> FALSE]

\* the state before any request
InitHandler ==
    /\ messageCounter = 0
    /\ pc = [c \in Conns |-> "idle"]
    /\ status = [c \in Conns |-> 0]
    /\ payload = [c \in Conns |-> <<>>]
    /\ id = [c \in Conns |-> 0]
    /\ formatted = [c \in Conns |-> <<>>]
    /\ readDeadline = [c \in Conns |-> 0]
    /\ doneCount = [c \in Conns |-> 0]
    /\ closeCount = [c \in Conns |-> 0]
    /\ hb = [c \in Conns |-> "none"]
    /\ ticked = [c \in Conns |-> FALSE]
    /\ err = [c \in Conns |-> "none"]
    /\ accepted = [c \in Conns |-> <<>>]
    /\ lastMessage = [c \in Conns |-> 0]
    /\ request = [c \in Conns |-> NoRequest]
    /\ issued = <<>>

\* handler.go:130-181: the request is refused, or upgraded; then the read
\* limit and the read deadline are set and the ping goroutine is started.
\* Whatever makes the upgrade fail, upgrader.Error answers 403.
Upgrade(c, method, origin, handshake) ==
    /\ pc[c] = "idle"
    /\ request' = [request EXCEPT ![c] = [method |-> method, origin |-> origin,
                                          handshake |-> handshake]]
    /\ IF method # "GET"
       THEN /\ status' = [status EXCEPT ![c] = 405]
            /\ pc' = [pc EXCEPT ![c] = "rejected"]
            /\ UNCHANGED <<readDeadline, hb, lastMessage>>
       ELSE IF ~originAllowed(origin) \/ ~handshake
       THEN /\ status' = [status EXCEPT ![c] = 403]
            /\ pc' = [pc EXCEPT ![c] = "rejected"]
            /\ UNCHANGED <<readDeadline, hb, lastMessage>>
       ELSE /\ pc' = [pc EXCEPT ![c] = "read"]
            /\ readDeadline' = [readDeadline EXCEPT ![c] = now + pongWait]
            /\ hb' = [hb EXCEPT ![c] = "run"]
            /\ lastMessage' = [lastMessage EXCEPT ![c] = now]
            /\ UNCHANGED status
    /\ UNCHANGED <<now, rlVars, chVars, hubVars, messageCounter, payload, id,
                   formatted, doneCount, closeCount, ticked, err, accepted,
                   budget, horizon, issued>>

\* handler.go:185, 208: ReadMessage returns a text message
ReadText(c, text) ==
    /\ pc[c] = "read"
    /\ now < readDeadline[c]
    /\ budget > 0
    /\ budget' = budget - 1
    /\ payload' = [payload EXCEPT ![c] = text]
    /\ accepted' = [accepted EXCEPT ![c] = Append(@, text)]
    /\ lastMessage' = [lastMessage EXCEPT ![c] = now]
    /\ pc' = [pc EXCEPT ![c] = "dispatch"]
    /\ UNCHANGED <<now, rlVars, chVars, hubVars, messageCounter, status, id,
                   formatted, readDeadline, doneCount, closeCount, hb, ticked,
                   err, horizon, request, issued>>

\* handler.go:185, 208: ReadMessage returns a message that is no text
\* message; the loop goes on
ReadBinary(c) ==
    /\ pc[c] = "read"
    /\ now < readDeadline[c]
    /\ budget > 0
    /\ budget' = budget - 1
    /\ lastMessage' = [lastMessage EXCEPT ![c] = now]
    /\ UNCHANGED <<now, rlVars, chVars, hubVars, messageCounter, pc, status,
                   payload, id, formatted, readDeadline, doneCount,
                   closeCount, hb, ticked, err, accepted, horizon, request, issued>>

\* handler.go:156-160: the pong handler, run by ReadMessage
Pong(c) ==
    /\ pc[c] = "read"
    /\ now < readDeadline[c]
    /\ readDeadline' = [readDeadline EXCEPT ![c] = now + pongWait]
    /\ UNCHANGED <<now, rlVars, chVars, hubVars, messageCounter, pc, status,
                   payload, id, formatted, doneCount, closeCount, hb, ticked,
                   err, accepted, lastMessage, budget, horizon, request, issued>>

\* handler.go:186-202: ReadMessage returns an error (the read deadline has
\* passed, the peer closed, or a frame is over the read limit); a close
\* frame is tried and the loop is left
ReadError(c, kind, size) ==
    /\ pc[c] = "read"
    /\ kind = "timeout" => now >= readDeadline[c]
    /\ kind = "limit" => size > ReadLimit /\ now < readDeadline[c]
    /\ kind = "close" => now < readDeadline[c]
    /\ err' = [err EXCEPT ![c] = kind]
    /\ pc' = [pc EXCEPT ![c] = "stop"]
    /\ UNCHANGED <<now, rlVars, chVars, hubVars, messageCounter, status,
                   payload, id, formatted, readDeadline, doneCount,
                   closeCount, hb, ticked, accepted, lastMessage, budget,
                   horizon, request, issued>>

\* handler.go:208-242: the id is allocated and the response is built
Dispatch(c) ==
    /\ pc[c] = "dispatch"
    /\ LET n == AtomicAddUint64(messageCounter, 1)
       IN  /\ messageCounter' = n
           /\ id' = [id EXCEPT ![c] = n]
           /\ issued' = Append(issued, n)
           /\ formatted' = [formatted EXCEPT ![c] = Formatted(n, ResponseBody(payload[c]))]
    /\ pc' = [pc EXCEPT ![c] = "write"]
    /\ UNCHANGED <<now, rlVars, chVars, hubVars, status, payload,
                   readDeadline, doneCount, closeCount, hb, ticked, err,
                   accepted, lastMessage, budget, horizon, request>>

\* handler.go:244-249: WriteMessage returns; an error leaves the loop, and
\* otherwise the iteration's variables go out of scope
Write(c, ok) ==
    /\ pc[c] = "write"
    /\ pc' = [pc EXCEPT ![c] = IF ok THEN "read" ELSE "stop"]
    /\ payload' = [payload EXCEPT ![c] = <<>>]
    /\ id' = [id EXCEPT ![c] = 0]
    /\ formatted' = [formatted EXCEPT ![c] = <<>>]
    /\ err' = [err EXCEPT ![c] = IF ok THEN @ ELSE "write"]
    /\ UNCHANGED <<now, rlVars, chVars, hubVars, messageCounter, status,
                   readDeadline, doneCount, closeCount, hb, ticked,
                   accepted, lastMessage, budget, horizon, request, issued>>

\* handler.go:252-253: close(done)
CloseDone(c) ==
    /\ pc[c] = "stop"
    /\ doneCount' = [doneCount EXCEPT ![c] = CloseChan(@)]
    /\ pc' = [pc EXCEPT ![c] = "closing"]
    /\ UNCHANGED <<now, rlVars, chVars, hubVars, messageCounter, status,
                   payload, id, formatted, readDeadline, closeCount, hb,
                   ticked, err, accepted, lastMessage, budget, horizon, request, issued>>

\* handler.go:143, 256: the function returns and the deferred conn.Close()
\* runs; the connection and what was recorded of it are gone
ConnClose(c) ==
    /\ pc[c] = "closing"
    /\ closeCount' = [closeCount EXCEPT ![c] = CloseConn(@)]
    /\ pc' = [pc EXCEPT ![c] = "returned"]
    /\ readDeadline' = [readDeadline EXCEPT ![c] = 0]
    /\ accepted' = [accepted EXCEPT ![c] = <<>>]
    /\ lastMessage' = [lastMessage EXCEPT ![c] = 0]
    /\ UNCHANGED <<now, rlVars, chVars, hubVars, messageCounter, status,
                   payload, id, formatted, doneCount, hb, ticked, err, budget,
                   horizon, request, issued>>

\* handler.go:169-172: the select takes the tick and WriteControl is called
Ping(c) ==
    /\ hb[c] = "run"
    /\ ticked[c]
    /\ ticked' = [ticked EXCEPT ![c] = FALSE]
    /\ hb' = [hb EXCEPT ![c] = "ping"]
    /\ UNCHANGED <<now, rlVars, chVars, hubVars, messageCounter, pc, status,
                   payload, id, formatted, readDeadline, doneCount,
                   closeCount, err, accepted, lastMessage, budget, horizon,
                   request, issued>>

\* handler.go:172-176: WriteControl returns, within writeWait; an error ends
\* the goroutine (the deferred ticker.Stop() runs).  A write to a closed
\* connection fails.
PingReturn(c, ok) ==
    /\ hb[c] = "ping"
    /\ ok => closeCount[c] = 0
    /\ hb' = [hb EXCEPT ![c] = IF ok THEN "run" ELSE "failed"]
    /\ UNCHANGED <<now, rlVars, chVars, hubVars, messageCounter, pc, status,
                   payload, id, formatted, readDeadline, doneCount,
                   closeCount, ticked, err, accepted, lastMessage, budget,
                   horizon, request, issued>>

DoneNeverReady(count) == FALSE

\* case <-done is ready once done has been closed
DoneClosed(count) == count > 0

\* handler.go:177-178: done is closed; the goroutine returns (the deferred
\* ticker.Stop() runs)
PingStopped(c) ==
    /\ hb[c] = "run"
    /\ DoneClosed(doneCount[c])
    /\ hb' = [hb EXCEPT ![c] = "stopped"]
    /\ ticked' = [ticked EXCEPT ![c] = FALSE]
    /\ UNCHANGED <<now, rlVars, chVars, hubVars, messageCounter, pc, status,
                   payload, id, formatted, readDeadline, doneCount,
                   closeCount, err, accepted, lastMessage, budget, horizon,
                   request, issued>>

\* time passes: the clock moves on by one ticker period, and every running
\* ticker puts a tick in its channel, which holds one.  A ping write is
\* over within writeWait, before the next period ends.
Tick ==
    /\ writeWait < pingPeriod
    /\ \A c \in Conns : hb[c] # "ping"
    /\ now + pingPeriod <= horizon
    /\ now' = now + pingPeriod
    /\ ticked' = [c \in Conns |-> hb[c] = "run"]
    /\ UNCHANGED <<rlVars, chVars, hubVars, messageCounter, pc, status,
                   payload, id, formatted, readDeadline, doneCount,
                   closeCount, hb, err, accepted, lastMessage, budget, horizon, request, issued>>

----------------------------------------------------------------------------
(* Claims about the RateLimiter *)

\* call j opens a burst: every earlier call is more than one window older
BurstStart(j) ==
    \A i \in 1..(j - 1) : rlLog[j].at - rlLog[i].at > windowDuration

\* C2: of a burst of maxMessages + 1 AllowMessage calls that all fall inside
\* one windowDuration, exactly the first maxMessages return true and the last
\* returns false; and a call made once more than windowDuration has elapsed
\* since all earlier calls returns true again.
C2_BurstThenRecover ==
    /\ \A j \in 1..Len(rlLog) :
          ( /\ BurstStart(j)
            /\ j + maxMessages <= Len(rlLog)
            /\ rlLog[j + maxMessages].at - rlLog[j].at < windowDuration )
          => /\ \A i \in j..(j + maxMessages - 1) : rlLog[i].ok
             /\ ~rlLog[j + maxMessages].ok
    /\ \A j \in 1..Len(rlLog) : BurstStart(j) => rlLog[j].ok

\* a limiter of capacity 2 rejected the third call of a burst and accepted
\* a call made after the window had passed
C2_Witness ==
    /\ maxMessages = 2
    /\ Len(rlLog) = maxMessages + 2
    /\ rlLog[maxMessages + 1].at - rlLog[1].at < windowDuration
    /\ ~rlLog[maxMessages + 1].ok
    /\ BurstStart(maxMessages + 2)
    /\ rlLog[maxMessages + 2].ok

\* the timestamps the limiter has recorded: the times of the calls it let
\* through
Recorded(log) ==
    LET passed == SelectSeq(log, LAMBDA e : e.ok)
    IN  [i \in 1..Len(passed) |-> passed[i].at]

\* C16: after the purge step of every AllowMessage call at time now, the
\* stored timestamps are exactly the previously recorded timestamps t with
\* now - windowDuration <= t <= now (a timestamp exactly windowDuration old
\* is still counted), and none outside that interval.
C16_ClosedWindow ==
    [][Len(rlLog') = Len(rlLog) + 1
       => LET purged == IF rlLog'[Len(rlLog')].ok
                        THEN SubSeq(timestamps', 1, Len(timestamps') - 1)
                        ELSE timestamps'
          IN  purged = SelectSeq(Recorded(rlLog),
                                 LAMBDA t : now - windowDuration <= t /\ t <= now)]_vars

----------------------------------------------------------------------------
(* Claims about the CommandHistory *)

\* the last n entries of s
LastN(s, n) == SubSeq(s, Len(s) - n + 1, Len(s))

\* C4: the stored length never exceeds maxSize, and a GetHistory call made
\* after maxSize + k Add calls (k > 0) returns exactly the last maxSize added
\* entries in insertion order.
C4_LastMaxSize ==
    /\ Len(commands) <= maxSize
    /\ historyAt > maxSize
         => history = LastN(SubSeq(added, 1, historyAt), maxSize)

\* GetHistory was called on a history of capacity 2 after 3 Adds, and more
\* was added since
C4_Witness ==
    /\ maxSize = 2
    /\ historyAt = maxSize + 1
    /\ Len(added) > historyAt
    /\ history = <<added[2], added[3]>>
    /\ added[1] # added[2]

----------------------------------------------------------------------------
(* Claims about the ClientHub *)

\* C7: while the hub processes one broadcast, a write failure to one
\* recipient is only logged: the membership set stays what it was when the
\* broadcast started, no member other than the sender is dropped from the
\* loop, the sender is not written to, and when the loop ends every member
\* but the sender has had its write attempted.
C7_FailureOnlyLogged ==
    bcast.failed # {} =>
        /\ bcast.sender \notin bcast.attempted
        /\ hubpc # "select" =>
              /\ clients = bcast.before
              /\ (bcast.before \ {bcast.sender}) \subseteq (bcast.attempted \cup todo)
        /\ bcast.done => bcast.attempted = bcast.before \ {bcast.sender}

\* a broadcast to three members ended after the write to one of the two
\* recipients failed and the write to the other succeeded
C7_Witness ==
    /\ bcast.done
    /\ Cardinality(bcast.before) = 3
    /\ bcast.sender \in bcast.before
    /\ Cardinality(bcast.failed) = 1
    /\ \E c \in bcast.attempted \ bcast.failed : written[c] # <<>>

\* C8: a recipient whose write does not complete never blocks the hub: while
\* the write is outstanding, every Register, Unregister or Broadcast call
\* another connection is blocked in eventually returns, and every recipient
\* the range loop has still to visit is eventually written to.
C8_StalledWriteNeverBlocks ==
    /\ \A c \in Conns :
          (hubpc = "write" /\ target # c /\ call[c] # NoCall) ~> (call[c] = NoCall)
    /\ \A c \in Conns :
          (hubpc = "write" /\ c \in todo /\ c # msg.Sender) ~> (c \in bcast.attempted)

\* C15: hub membership operations are idempotent: processing a Register
\* of a connection that is registered leaves the membership set as it is,
\* processing an Unregister of one that is absent leaves it as it is, a
\* Register otherwise adds just that connection and an Unregister removes
\* just it; and (a map having one key for an identity) a connection is a
\* member exactly when the last operation processed for it was a Register.
C15_MembershipIdempotent ==
    /\ [](\A c \in Conns :
            c \in clients <=> lastOp[c] \in {"register", "register again"})
    /\ [][\A c \in Conns :
            /\ (call[c].op = "register" /\ call'[c] = NoCall)
                  => /\ clients' = clients \cup {c}
                     /\ c \in clients => clients' = clients
            /\ (call[c].op = "unregister" /\ call'[c] = NoCall)
                  => /\ clients' = clients \ {c}
                     /\ c \notin clients => clients' = clients]_vars

\* a Register of a registered connection and an Unregister of an absent one
\* have been processed
C15_Witness ==
    /\ lastOp["c1"] = "register again"
    /\ lastOp["c2"] = "unregister absent"
    /\ clients = {"c1"}

\* C18: the hub processes broadcasts in submission order: if Broadcast(p1)
\* had returned before Broadcast(p2) was called, every connection that is
\* written both is written p1 before p2; and the coordinator processes one
\* operation at a time: while it fans a broadcast out it takes no register,
\* no unregister and no further broadcast.
C18_SubmissionOrder ==
    /\ [](\A c \in Conns : \A i, j \in 1..Len(written[c]) :
            i < j => written[c][j].n \notin written[c][i].after)
    /\ [][hubpc # "select"
            => /\ clients' = clients
               /\ lastOp' = lastOp
               /\ Len(broadcast') >= Len(broadcast)
               /\ msg' = msg \/ hubpc' = "select"]_vars

\* one connection has been written two payloads, the first of a Broadcast
\* call that had returned before the second was made
C18_Witness ==
    /\ Len(written["c1"]) = 2
    /\ written["c1"][1].n \in written["c1"][2].after
    /\ Len(broadcast) = 0
    /\ hubpc = "select"

\* C20: once an Unregister(c) call has returned, nothing is written to c
\* until c is registered again: the coordinator writes to a connection only
\* while the last membership operation it processed for it is a Register,
\* so a broadcast submitted before the Unregister reaches c only if it is
\* processed before it, and one submitted afterwards never.
C20_NoWriteAfterUnregister ==
    /\ hubpc = "write" => lastOp[target] \in {"register", "register again"}
    /\ hubpc # "select" => todo \subseteq clients
    /\ \A c \in Conns :
          lastOp[c] \in {"unregister", "unregister absent", "none"}
          => c \notin todo /\ c # target

\* a connection was written the first broadcast and unregistered; the
\* second broadcast, submitted when the Unregister had returned, has been
\* written to another member and not to it
C20_Witness ==
    /\ lastOp["c1"] = "unregister"
    /\ Len(written["c1"]) = 1
    /\ written["c1"][1].n = 1
    /\ bcast.done
    /\ Len(written["c2"]) > 0
    /\ written["c2"][Len(written["c2"])].n = 2
    /\ "c1" \in written["c2"][Len(written["c2"])].gone

----------------------------------------------------------------------------
(* Claims about the connection handlers *)

\* the connections that are open: upgraded and not yet closed
Open == {c \in Conns : pc[c] \in {"read", "dispatch", "write", "stop", "closing"}}

\* C1: the ids allocated from the message counter are pairwise distinct and
\* are exactly 1, 2, ..., n for the n text messages answered so far, under
\* every interleaving of the connections' read loops; the ids two
\* connections hold at the same time differ.
C1_IdsContiguous ==
    /\ \A i \in 1..Len(issued) : issued[i] = i
    /\ messageCounter = Len(issued)
    /\ \A c \in Conns : pc[c] = "write" => id[c] \in 1..Len(issued)
    /\ \A c, d \in Conns : (c # d /\ pc[c] = "write" /\ pc[d] = "write") => id[c] # id[d]

\* two connections are answering a text message each at the same time
C1_Witness ==
    /\ pc["c1"] = "write"
    /\ pc["c2"] = "write"
    /\ Len(issued) = 2
    /\ id["c1"] = 2
    /\ id["c2"] = 1

\* the documented limit, README.md:86: 10 messages per minute
RateMax == 10
RateWindow == 60

\* README.md:87
RateLimitError ==
    <<"{", "error", ":", "rate limit exceeded: max 10 messages per minute", "}">>

\* C3: when a text message arrives on a connection that has already had 10
\* text messages accepted within the last 60 seconds (here: more than 10
\* accepted, all of them in the first 60 seconds of the clock), the response
\* is the rate-limit error payload, with no message id before it, and the
\* message counter is left as it was.  (The handler keeps no CommandHistory
\* for a connection, so there is none to change.)
C3_EleventhRejected ==
    [][\A c \in Conns :
          ( /\ pc[c] = "dispatch"
            /\ pc'[c] = "write"
            /\ Len(accepted[c]) > RateMax
            /\ now < RateWindow )
          => /\ formatted'[c] = RateLimitError
             /\ messageCounter' = messageCounter]_vars

\* the documented capacity of a connection's history, README.md:91
HistoryCap == 5

\* the smaller of two numbers
Min(a, b) == IF a < b THEN a ELSE b

\* all of s but its last entry
Front(s) == SubSeq(s, 1, Len(s) - 1)

\* C5: after the accepted text messages m1..mk, the response to the message
\* HISTORY is the JSON snapshot of the original texts of the last min(k, 5)
\* of m1..mk, in the order received, with count the number listed.
C5_HistoryAnswered ==
    \A c \in Conns :
        (pc[c] = "write" /\ payload[c] = THistory)
        => LET before == Front(accepted[c])
           IN  formatted[c] = GetHistoryJSON(LastN(before, Min(Len(before), HistoryCap)))

BroadcastPrefix == <<"B", "R", "O", "A", "D", "C", "A", "S", "T", ":">>

\* C6: when a connection has been sent a text with the BROADCAST: prefix
\* and is being answered, the broadcast has been handed to the hub (it is in
\* the hub's channel, or being fanned out, or written to every other open
\* connection), and the sender's own response is the normal id-prefixed one.
C6_BroadcastReachesOthers ==
    \A a \in Conns :
        (pc[a] = "write" /\ HasPrefix(payload[a], BroadcastPrefix))
        => /\ \/ Open \ {a} = {}
              \/ \E i \in 1..Len(broadcast) : broadcast[i].Sender = a
              \/ msg.Sender = a
              \/ \A b \in Open \ {a} : written[b] # <<>>
           /\ written[a] = <<>>
           /\ formatted[a] = Formatted(id[a], payload[a])

\* C9: a successful read of an ordinary message resets the read deadline to
\* now + idle timeout, as a pong does, so a connection is closed for
\* idleness only when it has sent no message for the idle timeout.
C9_ReadsKeepAlive ==
    \A c \in Conns :
        /\ pc[c] \in {"read", "dispatch", "write"}
              => readDeadline[c] >= lastMessage[c] + pongWait
        /\ (pc[c] = "stop" /\ err[c] = "timeout")
              => now - lastMessage[c] >= pongWait

\* C10: whenever a connection's read loop exits on a read error, then
\* eventually the heartbeat task has been signalled to stop (done is
\* closed), the connection is not in the ClientHub membership set, and the
\* underlying stream is closed.
C10_TeardownAfterReadError ==
    \A c \in Conns :
        (pc[c] = "stop" /\ err[c] \in {"timeout", "close", "limit"})
        ~> (doneCount[c] > 0 /\ c \notin clients /\ closeCount[c] > 0)

\* a read loop that ended on an idle timeout was torn down
C10_Witness ==
    /\ pc["c1"] = "returned"
    /\ err["c1"] = "timeout"
    /\ doneCount["c1"] = 1
    /\ closeCount["c1"] = 1
    /\ "c1" \notin clients

\* C11: for every established connection and every way its read loop can
\* end (a read error or a failed response write), teardown runs exactly
\* once: close(done) has run once and conn.Close() has run once when the
\* handler has returned, neither ever runs twice, and a read loop that has
\* ended is eventually torn down.
C11_TeardownOnce ==
    /\ [](\A c \in Conns :
            /\ doneCount[c] <= 1
            /\ closeCount[c] <= 1
            /\ pc[c] \in {"idle", "rejected", "read", "dispatch", "write", "stop"}
                  => (doneCount[c] = 0 /\ closeCount[c] = 0)
            /\ pc[c] = "closing" => (doneCount[c] = 1 /\ closeCount[c] = 0)
            /\ pc[c] = "returned" => (doneCount[c] = 1 /\ closeCount[c] = 1))
    /\ \A c \in Conns :
          (pc[c] = "stop") ~> (doneCount[c] = 1 /\ closeCount[c] = 1)

\* a read loop that ended on a failed response write was torn down once
C11_Witness ==
    /\ pc["c1"] = "returned"
    /\ err["c1"] = "write"
    /\ messageCounter > 0
    /\ doneCount["c1"] = 1
    /\ closeCount["c1"] = 1

\* a JSON text has the field
HasField(json, name) ==
    \E i \in 1..(Len(json) - 1) : json[i] = name /\ json[i + 1] = ":"

\* C12: for every arithmetic request (any operation name, any two
\* operands) the response of the command processor has exactly one of the
\* fields result and error: never both and never neither.
C12_ResultXorError ==
    \A c \in Conns :
        (pc[c] = "write" /\ payload[c] \in CommandTexts)
        => /\ formatted[c] = Formatted(id[c], processCommand(payload[c]))
           /\ HasField(formatted[c], "result") # HasField(formatted[c], "error")

\* the error payload of a request that is answered with an error
ErrorPayload(text) ==
    IF text = TMalformed
    THEN <<"{", "command", ":", "unknown", ",", "error", ":",
           "invalid JSON: unexpected end of JSON input", "}">>
    ELSE IF text = TUnknown
    THEN <<"{", "command", ":", "power", ",", "error", ":",
           "unknown command: power", "}">>
    ELSE <<"{", "command", ":", "divide", ",", "error", ":",
           "division by zero", "}">>

SameButCase(s, t) ==
    /\ Len(s) = Len(t)
    /\ \A k \in 1..Len(s) :
          \/ s[k] = t[k]
          \/ \E i \in 1..Len(Lower) : {s[k], t[k]} = {Lower[i], Upper[i]}

\* an allow-list entry matches the Origin header
OnAllowList(o) ==
    \E i \in 1..Len(allowedOrigins) : SameButCase(o, allowedOrigins[i])

\* C14: a request whose method is not GET is answered 405, whatever its
\* Origin; a GET whose Origin is empty or matches no allow-list entry
\* (letter case aside) is answered 403; a rejected request has no
\* connection: no heartbeat task, no hub registration, no message id, no
\* deadline and nothing to tear down; and only a GET with an allowed Origin
\* reaches the connected state.
C14_RejectedNeverConnected ==
    \A c \in Conns :
        LET r == request[c]
        IN  /\ pc[c] = "rejected"
                  => /\ status[c] \in {403, 405}
                     /\ hb[c] = "none" /\ ~ticked[c]
                     /\ c \notin clients /\ call[c] = NoCall
                     /\ id[c] = 0 /\ accepted[c] = <<>> /\ issued = <<>>
                     /\ readDeadline[c] = 0
                     /\ doneCount[c] = 0 /\ closeCount[c] = 0
            /\ (pc[c] # "idle" /\ r.method # "GET")
                  => (pc[c] = "rejected" /\ status[c] = 405)
            /\ (pc[c] # "idle" /\ r.method = "GET"
                  /\ (r.origin = <<>> \/ ~OnAllowList(r.origin)))
                  => (pc[c] = "rejected" /\ status[c] = 403)
            /\ pc[c] \notin {"idle", "rejected"}
                  => (r.method = "GET" /\ OnAllowList(r.origin) /\ status[c] = 0)

\* a GET from an origin that is not on the allow-list was answered 403
C14_Witness ==
    /\ pc["c1"] = "rejected"
    /\ status["c1"] = 403
    /\ request["c1"].method = "GET"
    /\ request["c1"].origin \notin {<<>>, allowedOrigins[1]}
    /\ request["c1"].handshake
    /\ hb["c1"] = "none"

C19_HeartbeatEnds ==
    /\ \A c \in Conns :
          (pc[c] \in {"stop", "closing", "returned"} /\ hb[c] \in {"run", "ping"})
          ~> (hb[c] \in {"stopped", "failed"})
    /\ [][\A c \in Conns :
            (hb[c] = "ping" /\ hb'[c] # "ping")
            => /\ pc'[c] = pc[c]
               /\ readDeadline'[c] = readDeadline[c]
               /\ doneCount'[c] = doneCount[c]
               /\ closeCount'[c] = closeCount[c]
               /\ err'[c] = err[c]]_vars

\* the read loop was left on a read error after a ticker period had
\* passed, and the task has returned on done
C19_Witness ==
    /\ pc["c1"] = "returned"
    /\ err["c1"] = "close"
    /\ hb["c1"] = "stopped"
    /\ now = pingPeriod

\* a ping write failed and the task is gone, and the read loop has since
\* read a message that it is answering
C19_ReadLoopGoesOn ==
    /\ hb["c1"] = "failed"
    /\ pc["c1"] = "write"
    /\ closeCount["c1"] = 0

----------------------------------------------------------------------------
(* Specifications *)

InitIdleRL ==
    /\ timestamps = <<>>
    /\ maxMessages = 1
    /\ windowDuration = 1
    /\ rlLog = <<>>

InitIdleCH ==
    /\ commands = <<>>
    /\ maxSize = 1
    /\ added = <<>>
    /\ history = <<>>
    /\ historyAt = 0

NextRL == AllowMessage \/ RLSleep

StartRL == now = 0 /\ InitRL /\ InitIdleCH /\ InitHub /\ InitHandler /\ budget = 0 /\ horizon = 0

SpecRL == StartRL /\ [][NextRL]_vars

NextCH == (\E command \in Commands : Add(command)) \/ GetHistory

StartCH == now = 0 /\ InitIdleRL /\ InitCH /\ InitHub /\ InitHandler /\ budget = 0 /\ horizon = 0

SpecCH == StartCH /\ [][NextCH]_vars

\* the coordinator's steps, but for the return of a write
HubStep ==
    \/ \E c \in Conns : HubRegister(c) \/ HubUnregister(c) \/ HubWrite(c)
    \/ HubBroadcast
    \/ HubSkipSender
    \/ HubRangeEnd

NextHub ==
    \/ \E c \in Conns : CallRegister(c)
    \/ \E c \in Conns : CallUnregister(c)
    \/ \E c \in Senders : CallBroadcast(c)
    \/ \E c \in Conns : SendBroadcast(c)
    \/ \E c \in Conns : HubRegister(c)
    \/ \E c \in Conns : HubUnregister(c)
    \/ HubBroadcast
    \/ HubSkipSender
    \/ \E c \in Conns : HubWrite(c)
    \/ \E ok \in BOOLEAN : HubWriteReturn(ok)
    \/ HubRangeEnd

StartHub == now = 0 /\ InitIdleRL /\ InitIdleCH /\ InitHub /\ InitHandler /\ budget = 0 /\ horizon = 0

SpecHub == StartHub /\ [][NextHub]_vars

\* The Go scheduler runs every goroutine that can take a step: the hub's
\* coordinator and the senders on its channels.  Nothing makes a peer read,
\* so the return of a write is not guaranteed.
FairSpecHub ==
    /\ SpecHub
    /\ WF_vars(HubStep)
    /\ \A c \in Conns : WF_vars(SendBroadcast(c))

\* what one connection and its heartbeat task can do, for the texts given
ConnNext(c, texts, origins) ==
    \/ \E method \in Methods, origin \in origins, handshake \in BOOLEAN :
          Upgrade(c, method, origin, handshake)
    \/ \E text \in texts : ReadText(c, text)
    \/ ReadBinary(c)
    \/ Pong(c)
    \/ \E kind \in {"timeout", "close", "limit"}, size \in {ReadLimit, ReadLimit + 1} :
          ReadError(c, kind, size)
    \/ Dispatch(c)
    \/ \E ok \in BOOLEAN : Write(c, ok)
    \/ CloseDone(c)
    \/ ConnClose(c)
    \/ Ping(c)
    \/ \E ok \in BOOLEAN : PingReturn(c, ok)
    \/ PingStopped(c)

\* one connection, sent any of the texts
NextConn == ConnNext("c1", Texts, Origins) \/ Tick

StartConn ==
    /\ now = 0 /\ InitIdleRL /\ InitIdleCH /\ InitHub /\ InitHandler
    /\ budget = MaxFrames
    /\ horizon = MaxTicks * pingPeriod

SpecConn == StartConn /\ [][NextConn]_vars

\* one connection from its upgrade to its teardown, sent echo requests
NextLife == ConnNext("c1", {TEcho}, SharedOrigins) \/ Tick

StartLife ==
    /\ now = 0 /\ InitIdleRL /\ InitIdleCH /\ InitHub /\ InitHandler
    /\ budget = MaxFrames
    /\ horizon = MaxTicks * pingPeriod

SpecLife == StartLife /\ [][NextLife]_vars

\* The Go scheduler runs the handler's goroutine whenever it can take a
\* step: once the read loop is left, close(done) and the deferred Close run.
FairSpecLife ==
    /\ SpecLife
    /\ WF_vars(CloseDone("c1"))
    /\ WF_vars(ConnClose("c1"))

\* The ping goroutine is scheduled too: a WriteControl comes back, by its
\* deadline at the latest, and a select whose done case is ready is left.
FairSpecPing ==
    /\ FairSpecLife
    /\ WF_vars(\E ok \in BOOLEAN : PingReturn("c1", ok))
    /\ WF_vars(PingStopped("c1"))

\* one connection, sent a burst of one more text than the documented limit
\* within two ticker periods
NextBurst == ConnNext("c1", {TEcho}, SharedOrigins) \/ Tick

StartBurst ==
    /\ now = 0 /\ InitIdleRL /\ InitIdleCH /\ InitHub /\ InitHandler
    /\ budget = RateMax + 1
    /\ horizon = pingPeriod

SpecBurst == StartBurst /\ [][NextBurst]_vars

\* one connection, sent arithmetic requests
NextCmd == ConnNext("c1", CommandTexts, SharedOrigins) \/ Tick

StartCmd ==
    /\ now = 0 /\ InitIdleRL /\ InitIdleCH /\ InitHub /\ InitHandler
    /\ budget = CmdFrames
    /\ horizon = pingPeriod

SpecCmd == StartCmd /\ [][NextCmd]_vars

\* one connection, sent requests that are answered with an error, and echo
\* requests
NextErr == ConnNext("c1", ErrorTexts \cup {TEcho}, SharedOrigins) \/ Tick

StartErr ==
    /\ now = 0 /\ InitIdleRL /\ InitIdleCH /\ InitHub /\ InitHandler
    /\ budget = MaxFrames
    /\ horizon = pingPeriod

SpecErr == StartErr /\ [][NextErr]_vars

\* One connection served by HandleWebSocket and, while it is open,
\* registered with the hub through Hub.Register; another goroutine calls
\* Hub.Broadcast.
NextMember ==
    \/ ConnNext("c1", {TEcho}, SharedOrigins)
    \/ Tick
    \/ ("c1" \in Open /\ CallRegister("c1"))
    \/ HubRegister("c1")
    \/ CallBroadcast("c2")
    \/ SendBroadcast("c2")
    \/ HubBroadcast
    \/ HubWrite("c1")
    \/ \E ok \in BOOLEAN : HubWriteReturn(ok)
    \/ HubRangeEnd

StartMember ==
    /\ now = 0 /\ InitIdleRL /\ InitIdleCH /\ InitHub /\ InitHandler
    /\ budget = MaxFrames
    /\ horizon = SharedTicks * pingPeriod

SpecMember == StartMember /\ [][NextMember]_vars

\* two connections open at once
Peers == {"c1", "c2"}

NextHandler == (\E c \in Peers : ConnNext(c, SharedTexts, SharedOrigins)) \/ Tick

StartHandler ==
    /\ now = 0 /\ InitIdleRL /\ InitIdleCH /\ InitHub /\ InitHandler
    /\ budget = MaxFrames
    /\ horizon = SharedTicks * pingPeriod

SpecHandler == StartHandler /\ [][NextHandler]_vars

====
